---- MODULE Spec2Model ----
(***************************************************************************)
(* Enma: the reminder delivery pipeline.                                   *)
(*                                                                         *)
(* The shared "reminders" collection and the cron entrypoint               *)
(* api/telegram/cron.js that claims, sends and updates due reminders.      *)
(* Every await of the handler is one step of an invocation, so that        *)
(* overlapping invocations interleave exactly where the code suspends.     *)
(***************************************************************************)
EXTENDS Integers, Sequences, FiniteSets, TLC

\* ------------------------------------------------------------------ bounds
NumReminders == 3
NumInvocations == 2
MaxClock == 1
\* the query's batch size, .limit(100) in the code, scaled to the model
QueryLimit == 2
\* how many documents other writers of the store delete
MaxDeletes == 1

Rids == 1..NumReminders
Invs == 1..NumInvocations
Times == 0..MaxClock

\* JavaScript's undefined / a missing field
Undefined == "undefined"

VARIABLES
    env,        \* process.env: CRON_SECRET and TELEGRAM_BOT_TOKEN
    clock,      \* wall clock / server time
    reminders,  \* the shared collection: document id -> fields
    inv,        \* each invocation of the cron handler: its position and locals
    hist,       \* what has been observed so far (sends, claims), for the properties
    client,     \* the Mini-App (src/src/App.tsx): its state, storage and last step
    web         \* the webhook entrypoint and the collections it reads and writes

\* the variables of the cron entrypoint
vars == <<env, clock, reminders, inv, hist>>

allvars == <<env, clock, reminders, inv, hist, client, web>>

\* ------------------------------------------------------------ environment
Secret == "s3cret"
Token == "bot-token"

NoHeader == [scheme |-> "", rest |-> ""]
NoQuery == [type |-> "undefined", value |-> ""]

\* The requests tried. The Authorization header is <scheme prefix><rest>, the
\* absent header being '' (req.headers?.authorization ?? ''); req.query.secret
\* is absent, a string, or (a repeated parameter) an array.
Requests ==
    { [method |-> "GET", authorization |-> NoHeader, secret |-> NoQuery],
      [method |-> "POST", authorization |-> [scheme |-> "Bearer ", rest |-> Secret],
       secret |-> NoQuery],
      [method |-> "GET", authorization |-> NoHeader,
       secret |-> [type |-> "string", value |-> Secret]],
      [method |-> "POST", authorization |-> [scheme |-> "Bearer ", rest |-> "wrong"],
       secret |-> [type |-> "string", value |-> Secret]],
      [method |-> "GET", authorization |-> [scheme |-> "Bearer ", rest |-> "wrong"],
       secret |-> [type |-> "string", value |-> "wrong"]],
      [method |-> "GET", authorization |-> [scheme |-> "bearer ", rest |-> Secret],
       secret |-> NoQuery],
      [method |-> "GET", authorization |-> NoHeader,
       secret |-> [type |-> "object", value |-> Secret]],
      [method |-> "PUT", authorization |-> [scheme |-> "Bearer ", rest |-> Secret],
       secret |-> NoQuery] }

NoRequest == [method |-> "", authorization |-> NoHeader, secret |-> NoQuery]

\* What the provider's HTTP response to sendMessage can be: the HTTP status,
\* payload.ok and payload.description (Undefined when the body has no such
\* field or is not JSON at all, response.json().catch(() => ({}))).
ProviderResponses ==
    { [status |-> 200, payloadOk |-> "true", description |-> Undefined],
      [status |-> 200, payloadOk |-> Undefined, description |-> Undefined],
      [status |-> 200, payloadOk |-> "false", description |-> "Bad Request: chat not found"],
      [status |-> 403, payloadOk |-> "false", description |-> ""],
      [status |-> 502, payloadOk |-> Undefined, description |-> Undefined] }

\* ------------------------------------------------------- sendTelegramMessage
\* response.ok of fetch: a status in the range 200-299
ResponseOk(resp) == resp.status >= 200 /\ resp.status <= 299

\* ok: response.ok && payload.ok !== false
SendResultOk(resp) == ResponseOk(resp) /\ resp.payloadOk # "false"

sendTelegramMessage(resp) ==
    [ok |-> SendResultOk(resp), status |-> resp.status, description |-> resp.description]

NoSendResult == [ok |-> FALSE, status |-> 0, description |-> Undefined]

\* ------------------------------------------------------------ cron: entry
MethodAllowed(req) == req.method \in {"GET", "POST"}

\* header.startsWith('Bearer ') ? header.slice(7) : ''
Bearer(req) ==
    IF req.authorization.scheme = "Bearer " THEN req.authorization.rest ELSE ""

\* typeof req.query?.secret === 'string' ? req.query.secret : ''
QuerySecret(req) ==
    IF req.secret.type = "string" THEN req.secret.value ELSE ""

Unauthorized_Mut(req, cronSecret) ==
    /\ cronSecret # ""
    /\ Bearer(req) # cronSecret
    /\ req.secret.value # cronSecret

\* if (cronSecret) { if (bearer !== cronSecret && querySecret !== cronSecret) 401 }
Unauthorized(req, cronSecret) ==
    /\ cronSecret # ""
    /\ Bearer(req) # cronSecret
    /\ QuerySecret(req) # cronSecret

\* ------------------------------------------------------------- cron: query
IsDue_AnyStatus(r, now) == reminders[r].exists /\ reminders[r].scheduledAt <= now

IsDue_Mut(r, now) == reminders[r].exists /\ reminders[r].status = "pending"

\* .where('status', '==', 'pending').where('scheduledAt', '<=', now)
IsDue(r, now) ==
    /\ reminders[r].exists
    /\ reminders[r].status = "pending"
    /\ reminders[r].scheduledAt <= now

\* orderBy('scheduledAt', 'asc'): documents with equal scheduledAt follow in
\* document-id order
Before(a, b) ==
    \/ reminders[a].scheduledAt < reminders[b].scheduledAt
    \/ reminders[a].scheduledAt = reminders[b].scheduledAt /\ a < b

First(S) == CHOOSE a \in S : \A b \in S \ {a} : Before(a, b)

RECURSIVE OrderBy(_)
OrderBy(S) == IF S = {} THEN <<>> ELSE <<First(S)>> \o OrderBy(S \ {First(S)})

\* .limit(n)
Limit(s, n) == IF Len(s) <= n THEN s ELSE SubSeq(s, 1, n)

DueQuery(now) == Limit(OrderBy({r \in Rids : IsDue(r, now)}), QueryLimit)

\* ------------------------------------------------------------------- state
NoTime == -1

NewReminder(at) ==
    [exists |-> TRUE, status |-> "pending", scheduledAt |-> at,
     lastError |-> Undefined, notifiedAt |-> NoTime, updatedAt |-> NoTime]

\* a document that does not exist (any more): no fields
NoDocument ==
    [exists |-> FALSE, status |-> Undefined, scheduledAt |-> NoTime,
     lastError |-> Undefined, notifiedAt |-> NoTime, updatedAt |-> NoTime]

NoResponse == [status |-> 0, processed |-> 0]

IdleInvocation ==
    [pc |-> "idle", req |-> NoRequest, now |-> NoTime, docs |-> <<>>, idx |-> 1,
     sendResult |-> NoSendResult, results |-> <<>>, response |-> NoResponse]

\* the value of the variables of a component that is not part of a specification
NotRunning == <<>>

NoHistory ==
    [claimed |-> [i \in Invs |-> {}],
     delivered |-> [r \in Rids |-> 0],
     sentWhileSent |-> {},
     deletes |-> 0]

Init ==
    /\ env \in [cronSecret : {"", Secret}, token : {"", Token}]
    /\ clock = 0
    /\ reminders \in [Rids -> {NewReminder(at) : at \in Times}]
    /\ inv = [i \in Invs |-> IdleInvocation]
    /\ hist = NoHistory
    /\ client = NotRunning
    /\ web = NotRunning

\* the reminder the invocation is at in its loop over snapshot.docs
Current(i) == inv[i].docs[inv[i].idx]

Respond(i, status, processed) ==
    [inv[i] EXCEPT !.pc = "done", !.req = NoRequest, !.sendResult = NoSendResult,
                   !.response = [status |-> status, processed |-> processed]]

Processed_Mut(results) == Cardinality({k \in 1..Len(results) : results[k].ok})

\* line 90: processed: results.length
Processed(results) == Len(results)

\* for (const docSnap of snapshot.docs): the next document, or the response
\* after the last one
NextDoc(i, results) ==
    IF inv[i].idx < Len(inv[i].docs)
    THEN [inv[i] EXCEPT !.pc = "claim", !.idx = @ + 1, !.results = results,
                        !.sendResult = NoSendResult]
    ELSE [Respond(i, 200, Processed(results)) EXCEPT !.idx = Len(inv[i].docs) + 1,
                                              !.results = results]

\* ----------------------------------------------------------------- actions
\* time passes
Tick ==
    /\ clock < MaxClock
    /\ clock' = clock + 1
    /\ UNCHANGED <<env, reminders, inv, hist>>

\* a cron trigger (or a manual re-trigger) calls the entrypoint, lines 16-39:
\* the method, the secret, the token, and now
Start(i) ==
    /\ inv[i].pc = "idle"
    /\ \E req \in Requests :
         inv' = [inv EXCEPT ![i] =
           IF ~MethodAllowed(req) THEN [Respond(i, 405, 0) EXCEPT !.req = req]
           ELSE IF Unauthorized(req, env.cronSecret) THEN [Respond(i, 401, 0) EXCEPT !.req = req]
           ELSE IF env.token = "" THEN [Respond(i, 500, 0) EXCEPT !.req = req]
           ELSE [@ EXCEPT !.pc = "query", !.req = req, !.now = clock]]
    /\ UNCHANGED <<env, clock, reminders, hist>>

\* lines 40-51: the due query and the empty snapshot
Query(i) ==
    /\ inv[i].pc = "query"
    /\ LET docs == DueQuery(inv[i].now)
       IN inv' = [inv EXCEPT ![i] =
            IF docs = <<>> THEN Respond(i, 200, 0)
            ELSE [@ EXCEPT !.pc = "claim", !.req = NoRequest, !.docs = docs, !.idx = 1]]
    /\ UNCHANGED <<env, clock, reminders, hist>>

ClaimCheck_Mut(r) == reminders[r].exists

ClaimCheck_NotSending(r) == reminders[r].exists /\ reminders[r].status # "sending"

\* inside the transaction: latest.exists and data.status === 'pending'
ClaimCheck(r) == reminders[r].exists /\ reminders[r].status = "pending"

ClaimUpdate_Mut(rec) == [rec EXCEPT !.updatedAt = clock]

\* lines 61-64: tx.update(docRef, {status: 'sending', updatedAt})
ClaimUpdate(rec) == [rec EXCEPT !.status = "sending", !.updatedAt = clock]

\* lines 56-68: the claim transaction, atomic in the store
Claim(i) ==
    /\ inv[i].pc = "claim"
    /\ LET r == Current(i)
       IN IF ClaimCheck(r)
          THEN /\ reminders' = [reminders EXCEPT ![r] = ClaimUpdate(@)]
               /\ inv' = [inv EXCEPT ![i].pc = "send"]
               /\ hist' = [hist EXCEPT !.claimed[i] = @ \cup {r}]
          ELSE /\ inv' = [inv EXCEPT ![i] = NextDoc(i, inv[i].results)]
               /\ UNCHANGED <<reminders, hist>>
    /\ UNCHANGED <<env, clock>>

\* line 73: the provider answers the send
Send(i) ==
    /\ inv[i].pc = "send"
    /\ LET r == Current(i)
       IN \E resp \in ProviderResponses :
            LET res == sendTelegramMessage(resp)
            IN /\ inv' = [inv EXCEPT ![i].pc = "update", ![i].sendResult = res]
               /\ hist' = [hist EXCEPT
                    !.delivered[r] = IF res.ok THEN @ + 1 ELSE @,
                    !.sentWhileSent = IF reminders[r].exists /\ reminders[r].status = "sent"
                                      THEN @ \cup {r} ELSE @]
    /\ UNCHANGED <<env, clock, reminders>>

\* line 73: fetch rejects (DNS, connection reset), or the body is the JSON
\* null and payload.ok of line 12 throws; the exception leaves the loop for the
\* catch of line 91
SendThrows(i) ==
    /\ inv[i].pc = "send"
    /\ LET r == Current(i)
       IN hist' = [hist EXCEPT
            !.sentWhileSent = IF reminders[r].exists /\ reminders[r].status = "sent"
                              THEN @ \cup {r} ELSE @]
    /\ inv' = [inv EXCEPT ![i] = Respond(i, 500, 0)]
    /\ UNCHANGED <<env, clock, reminders>>

\* sendResult.payload?.description ?? 'Telegram send failed'
LastError(res) ==
    IF res.description = Undefined THEN "Telegram send failed" ELSE res.description

SentUpdate_Mut(rec) == [rec EXCEPT !.status = "pending", !.updatedAt = clock]

\* lines 75-79
SentUpdate(rec) ==
    [rec EXCEPT !.status = "sent", !.notifiedAt = clock, !.updatedAt = clock]

\* lines 81-85
FailedUpdate(rec, res) ==
    [rec EXCEPT !.status = "pending", !.lastError = LastError(res), !.updatedAt = clock]

\* lines 74-88: docRef.update (which rejects for a missing document) and
\* results.push
Update(i) ==
    /\ inv[i].pc = "update"
    /\ LET r == Current(i)
           res == inv[i].sendResult
       IN IF reminders[r].exists
          THEN /\ reminders' = [reminders EXCEPT ![r] =
                    IF res.ok THEN SentUpdate(@) ELSE FailedUpdate(@, res)]
               /\ inv' = [inv EXCEPT ![i] =
                    NextDoc(i, Append(inv[i].results,
                                      [id |-> r, ok |-> res.ok, status |-> res.status]))]
          ELSE /\ inv' = [inv EXCEPT ![i] = Respond(i, 500, 0)]
               /\ UNCHANGED reminders
    /\ UNCHANGED <<env, clock, hist>>

\* a store call (the query, the transaction, the update) rejects: line 91
StoreError(i) ==
    /\ inv[i].pc \in {"query", "claim", "update"}
    /\ inv' = [inv EXCEPT ![i] = Respond(i, 500, 0)]
    /\ UNCHANGED <<env, clock, reminders, hist>>

\* a document is deleted by another writer of the store (the case
\* !latest.exists of the transaction)
Delete(r) ==
    /\ reminders[r].exists
    /\ hist.deletes < MaxDeletes
    /\ reminders' = [reminders EXCEPT ![r] = NoDocument]
    /\ hist' = [hist EXCEPT !.deletes = @ + 1]
    /\ UNCHANGED <<env, clock, inv>>

\* the cron entrypoint and the store it works on; the Mini-App and the webhook
\* are not running
Next ==
    \/ Tick /\ UNCHANGED <<client, web>>
    \/ (\E i \in Invs : Start(i)) /\ UNCHANGED <<client, web>>
    \/ (\E i \in Invs : Query(i)) /\ UNCHANGED <<client, web>>
    \/ (\E i \in Invs : Claim(i)) /\ UNCHANGED <<client, web>>
    \/ (\E i \in Invs : Send(i)) /\ UNCHANGED <<client, web>>
    \/ (\E i \in Invs : SendThrows(i)) /\ UNCHANGED <<client, web>>
    \/ (\E i \in Invs : Update(i)) /\ UNCHANGED <<client, web>>
    \/ (\E i \in Invs : StoreError(i)) /\ UNCHANGED <<client, web>>
    \/ (\E r \in Rids : Delete(r)) /\ UNCHANGED <<client, web>>

Spec == Init /\ [][Next]_allvars

\* ------------------------------------------------ the cron job, run after run
\* (src/api/telegram/cron.js) The scheduler calls the entrypoint again and
\* again, with its secret; the platform may end a run at any await (timeout,
\* crash), and then it answers nothing.

\* the runs that can be under way at the same time
LoopRuns == 1
Runs == 1..LoopRuns

LoopInit ==
    /\ env = [cronSecret |-> Secret, token |-> Token]
    /\ clock = 0
    /\ reminders \in [Rids -> {NewReminder(at) : at \in Times}]
    /\ inv = [i \in Invs |-> IdleInvocation]
    /\ hist = NoHistory
    /\ client = NotRunning
    /\ web = NotRunning

\* the run is ended from outside while it waits at an await of lines 40-85
Abort(i) ==
    /\ inv[i].pc \in {"query", "claim", "send", "update"}
    /\ inv' = [inv EXCEPT ![i].pc = "aborted"]
    /\ UNCHANGED <<env, clock, reminders, hist>>

\* the next call of the entrypoint: line 15
Restart(i) ==
    /\ inv[i].pc \in {"done", "aborted"}
    /\ inv' = [inv EXCEPT ![i] = IdleInvocation]
    /\ hist' = [hist EXCEPT !.claimed[i] = {}]
    /\ UNCHANGED <<env, clock, reminders>>

\* a run of the scheduler: its request passes the checks of lines 16-36
Scheduled_Start(i) == Start(i) /\ inv'[i].pc = "query"

LoopNext ==
    \/ Tick /\ UNCHANGED <<client, web>>
    \/ (\E i \in Runs : Scheduled_Start(i)) /\ UNCHANGED <<client, web>>
    \/ (\E i \in Runs : Query(i)) /\ UNCHANGED <<client, web>>
    \/ (\E i \in Runs : Claim(i)) /\ UNCHANGED <<client, web>>
    \/ (\E i \in Runs : Send(i)) /\ UNCHANGED <<client, web>>
    \/ (\E i \in Runs : SendThrows(i)) /\ UNCHANGED <<client, web>>
    \/ (\E i \in Runs : Update(i)) /\ UNCHANGED <<client, web>>
    \/ (\E i \in Runs : StoreError(i)) /\ UNCHANGED <<client, web>>
    \/ (\E i \in Runs : Abort(i)) /\ UNCHANGED <<client, web>>
    \/ (\E i \in Runs : Restart(i)) /\ UNCHANGED <<client, web>>

LoopSpec == LoopInit /\ [][LoopNext]_allvars

\* the runs when neither the store nor the platform fails: only the provider
\* refuses messages
FairLoopNext ==
    \/ Tick /\ UNCHANGED <<client, web>>
    \/ (\E i \in Runs : Scheduled_Start(i)) /\ UNCHANGED <<client, web>>
    \/ (\E i \in Runs : Query(i)) /\ UNCHANGED <<client, web>>
    \/ (\E i \in Runs : Claim(i)) /\ UNCHANGED <<client, web>>
    \/ (\E i \in Runs : Send(i)) /\ UNCHANGED <<client, web>>
    \/ (\E i \in Runs : Update(i)) /\ UNCHANGED <<client, web>>
    \/ (\E i \in Runs : Restart(i)) /\ UNCHANGED <<client, web>>

\* time passes, the scheduler keeps calling, and every run goes on to its end
FairLoopSpec ==
    /\ LoopInit
    /\ [][FairLoopNext]_allvars
    /\ WF_allvars(Tick /\ UNCHANGED <<client, web>>)
    /\ \A i \in Runs :
         WF_allvars((Scheduled_Start(i) \/ Query(i) \/ Claim(i) \/ Send(i)
                       \/ Update(i) \/ Restart(i)) /\ UNCHANGED <<client, web>>)

\* ------------------------------------------------- the sender, on its own
\* (src/api/telegram/cron.js lines 5-13) One call of sendTelegramMessage on a
\* response of the provider: a status and a body, which is a JSON object with
\* or without ok and description, text that is not JSON, or the JSON null.

Statuses == {200, 204, 299, 300, 403, 429, 502}

SenderResponses ==
    {[status |-> st, body |-> "object", payloadOk |-> ok, description |-> de] :
        st \in Statuses, ok \in {"true", "false", Undefined},
        de \in {Undefined, "Bad Request: chat not found"}}
    \cup {[status |-> st, body |-> b, payloadOk |-> Undefined, description |-> Undefined] :
        st \in Statuses, b \in {"unparseable", "null"}}

\* line 11: response.json() of the JSON null resolves to null, the catch does
\* not run, and payload.ok of line 12 throws a TypeError
PayloadThrows(resp) == resp.body = "null"

SenderInit ==
    /\ inv \in {[pc |-> "fetch", response |-> resp, rejected |-> FALSE,
                 result |-> NoSendResult] : resp \in SenderResponses}
    /\ env = NotRunning
    /\ clock = 0
    /\ reminders = NotRunning
    /\ hist = NotRunning
    /\ client = NotRunning
    /\ web = NotRunning

\* lines 6-12: fetch resolves with the response
FetchResolves ==
    /\ inv.pc = "fetch"
    /\ inv' = IF PayloadThrows(inv.response)
              THEN [inv EXCEPT !.pc = "raised"]
              ELSE [inv EXCEPT !.pc = "returned",
                               !.result = sendTelegramMessage(inv.response)]
    /\ UNCHANGED <<env, clock, reminders, hist, client, web>>

\* line 6: fetch rejects: no response at all
FetchRejects ==
    /\ inv.pc = "fetch"
    /\ inv' = [inv EXCEPT !.pc = "raised", !.rejected = TRUE]
    /\ UNCHANGED <<env, clock, reminders, hist, client, web>>

SenderNext == FetchResolves \/ FetchRejects

SenderSpec == SenderInit /\ [][SenderNext]_allvars

\* ------------------------------------------------------ the Mini-App client
\* (src/src/App.tsx) The reminders of the signed-in user, the 30-second
\* scheduler tick, and the sends it fires without awaiting them.

MaxAdds == 2
MaxClientClock == 2

\* no Telegram user (the app runs outside Telegram): telegram?.initDataUnsafe?.user?.id
NoChat == 0
ChatId == 77
NoUser == ""
Uid == "u1"

\* setHours / setMinutes: minutes in an hour
MinutesPerHour == 60

\* the titles, dates and times typed into the reminder form; a time is what
\* time.split(':') gives
Titles == {"", " ", "call"}
Dates == {0, 1}
TimeInputs == { <<"00", "00">>, <<"00", "01">>, <<"01", "00">>, <<"">> }

\* title.trim()
Trim(title) == IF title = " " THEN "" ELSE title

\* Number(str) || 0, of the absent part too
NumberOrZero(str) ==
    CASE str = "00" -> 0
      [] str = "01" -> 1
      [] OTHER -> 0

Part(time, k) == IF k <= Len(time) THEN time[k] ELSE Undefined

\* lines 874-879: setMinutes(setHours(parseISO(date), hours), minutes)
Scheduled(reminder) ==
    reminder.date + MinutesPerHour * NumberOrZero(Part(reminder.time, 1))
                  + NumberOrZero(Part(reminder.time, 2))

\* JSON.stringify of the reminders: the array of the fields of each, in order
Stringify(rs) ==
    [k \in 1..Len(rs) |->
       <<rs[k].id, rs[k].title, rs[k].date, rs[k].time, rs[k].done, rs[k].notified>>]

\* JSON.parse of a stored entry
Parse(raw) ==
    [k \in 1..Len(raw) |->
       [id |-> raw[k][1], title |-> raw[k][2], date |-> raw[k][3],
        time |-> raw[k][4], done |-> raw[k][5], notified |-> raw[k][6]]]

\* the client of a user who is signed in and whose stored reminders, none yet,
\* are loaded. phase: "idle", or "effects" after a render for a new user whose
\* effects have not run yet, or "render" while the state they set waits for
\* its render. saved is the storage entry as it was at the last sign-out.
NewClient(chat) ==
    [user |-> Uid, chat |-> chat, now |-> 0, reminders |-> <<>>,
     storage |-> Stringify(<<>>), saved |-> Stringify(<<>>),
     nextId |-> 1, inflight |-> {}, failed |-> {},
     phase |-> "idle", pending |-> <<>>, prevUserId |-> Uid,
     op |-> "mount", lastSent |-> <<>>, lastWrote |-> FALSE]

ClientInit ==
    /\ client \in {NewClient(chat) : chat \in {NoChat, ChatId}}
    /\ env = NotRunning
    /\ clock = 0
    /\ reminders = NotRunning
    /\ inv = NotRunning
    /\ hist = NotRunning
    /\ web = NotRunning

\* lines 858-864: the persist effect, run by the render that follows a new
\* reminders array
Persist(c) ==
    IF c.user # NoUser THEN [c EXCEPT !.storage = Stringify(c.reminders), !.lastWrote = TRUE]
    ELSE [c EXCEPT !.lastWrote = FALSE]

\* setReminders with a new array
SetReminders(c, next) == Persist([c EXCEPT !.reminders = next])

\* lines 1025-1037
addReminder(date, title, time) ==
    /\ client.user # NoUser
    /\ client.nextId <= MaxAdds
    /\ IF Trim(title) = ""
       THEN client' = [client EXCEPT !.op = "add", !.lastSent = <<>>, !.lastWrote = FALSE]
       ELSE client' = SetReminders(
              [client EXCEPT !.nextId = @ + 1, !.op = "add", !.lastSent = <<>>],
              Append(client.reminders,
                     [id |-> client.nextId, title |-> Trim(title), date |-> date,
                      time |-> time, done |-> FALSE, notified |-> FALSE]))
    /\ UNCHANGED <<vars, web>>

Toggled_Mut(reminder) == [reminder EXCEPT !.done = ~@, !.notified = FALSE]

\* line 1043
Toggled(reminder) ==
    [reminder EXCEPT !.done = ~@,
                     !.notified = IF reminder.done THEN FALSE ELSE reminder.notified]

\* lines 1039-1047
toggleReminder(id) ==
    /\ client.user # NoUser
    /\ client' = SetReminders(
         [client EXCEPT !.op = "toggle", !.lastSent = <<>>],
         [k \in 1..Len(client.reminders) |->
            IF client.reminders[k].id = id THEN Toggled(client.reminders[k])
            ELSE client.reminders[k]])
    /\ UNCHANGED <<vars, web>>

\* prev.filter(reminder => reminder.id !== id)
RECURSIVE Without(_, _)
Without(rs, id) ==
    IF rs = <<>> THEN <<>>
    ELSE IF Head(rs).id = id THEN Without(Tail(rs), id)
    ELSE <<Head(rs)>> \o Without(Tail(rs), id)

\* lines 1049-1051
deleteReminder(id) ==
    /\ client.user # NoUser
    /\ client' = SetReminders([client EXCEPT !.op = "delete", !.lastSent = <<>>],
                            Without(client.reminders, id))
    /\ UNCHANGED <<vars, web>>

Fires_Mut(reminder, now) == ~reminder.notified /\ Scheduled(reminder) <= now

\* lines 873-880: not done, not notified, and scheduled <= new Date()
Fires(reminder, now) ==
    /\ ~(reminder.done \/ reminder.notified)
    /\ Scheduled(reminder) <= now

\* the ids of the reminders of rs that fire, in order: the calls of
\* notifyTelegramReminder of one pass of prev.map
RECURSIVE FiredIds(_, _)
FiredIds(rs, now) ==
    IF rs = <<>> THEN <<>>
    ELSE (IF Fires(Head(rs), now) THEN <<Head(rs).id>> ELSE <<>>) \o FiredIds(Tail(rs), now)

Notified_Mut(reminder) == reminder

\* line 882: { ...reminder, notified: true }
Notified(reminder) == [reminder EXCEPT !.notified = TRUE]

TickResult_Mut(prev, updated, changed) == [array |-> updated, same |-> FALSE]

\* line 887: changed ? updated : prev; returning prev itself, the same array,
\* React keeps the state and renders nothing
TickResult(prev, updated, changed) ==
    IF changed THEN [array |-> updated, same |-> FALSE]
    ELSE [array |-> prev, same |-> TRUE]

\* lines 869-889: one pass of the interval, which exists only with a Telegram
\* user id (line 867)
ClientTick ==
    /\ client.chat # NoChat
    /\ LET prev == client.reminders
           now == client.now
           updated == [k \in 1..Len(prev) |->
                         IF Fires(prev[k], now) THEN Notified(prev[k]) ELSE prev[k]]
           fired == FiredIds(prev, now)
           changed == fired # <<>>
           result == TickResult(prev, updated, changed)
           started == [client EXCEPT !.op = "tick", !.lastSent = fired,
                                     !.inflight = @ \cup {fired[k] : k \in 1..Len(fired)},
                                     !.failed = @ \ {fired[k] : k \in 1..Len(fired)}]
       IN client' = IF result.same
                    THEN [started EXCEPT !.lastWrote = FALSE]
                    ELSE SetReminders(started, result.array)
    /\ UNCHANGED <<vars, web>>

\* lines 558-567: the fetch of notifyTelegramReminder resolves
SendSettles(id) ==
    /\ id \in client.inflight
    /\ client' = [client EXCEPT !.inflight = @ \ {id}, !.op = "settled",
                                !.lastSent = <<>>, !.lastWrote = FALSE]
    /\ UNCHANGED <<vars, web>>

\* lines 568-570: the fetch rejects; the error is caught and logged
SendFails(id) ==
    /\ id \in client.inflight
    /\ client' = [client EXCEPT !.inflight = @ \ {id}, !.failed = @ \cup {id},
                                !.op = "failed", !.lastSent = <<>>, !.lastWrote = FALSE]
    /\ UNCHANGED <<vars, web>>

\* time passes in the browser
ClientClock ==
    /\ client.now < MaxClientClock
    /\ client' = [client EXCEPT !.now = @ + 1, !.op = "clock",
                                !.lastSent = <<>>, !.lastWrote = FALSE]
    /\ UNCHANGED <<vars, web>>

ClientNext ==
    \/ \E date \in Dates, title \in Titles, time \in TimeInputs : addReminder(date, title, time)
    \/ \E id \in 1..MaxAdds : toggleReminder(id)
    \/ \E id \in 1..MaxAdds : deleteReminder(id)
    \/ ClientTick
    \/ \E id \in 1..MaxAdds : SendSettles(id)
    \/ \E id \in 1..MaxAdds : SendFails(id)
    \/ ClientClock

ClientSpec == ClientInit /\ [][ClientNext]_allvars

\* ------------------------------------------------ the client across sign-out
\* (src/src/App.tsx lines 711-807, 858-864) setUser renders at once; the
\* effects of that render run later, in their order in the component; the
\* state they set is rendered after that. A timer can fire in between; the
\* handlers of the forms cannot, they need the input typed first.

\* lines 1079-1085, 711-717: signOut(auth), then onAuthStateChanged(null)
handleSignOut ==
    /\ client.phase = "idle"
    /\ client.user # NoUser
    /\ client' = [client EXCEPT !.user = NoUser, !.phase = "effects",
                                !.saved = client.storage, !.op = "signout",
                                !.lastSent = <<>>, !.lastWrote = FALSE]
    /\ UNCHANGED <<vars, web>>

\* lines 711-717: onAuthStateChanged(user) after a sign-in on the AuthScreen
onAuthStateChanged ==
    /\ client.phase = "idle"
    /\ client.user = NoUser
    /\ client' = [client EXCEPT !.user = Uid, !.phase = "effects", !.op = "signin",
                                !.lastSent = <<>>, !.lastWrote = FALSE]
    /\ UNCHANGED <<vars, web>>

\* lines 731-807: the load/reset effect
LoadEffect(c) ==
    IF c.user = NoUser
    THEN [c EXCEPT !.pending = <<>>, !.phase = "render", !.prevUserId = NoUser]
    ELSE IF c.prevUserId = c.user THEN c
    ELSE [c EXCEPT !.prevUserId = c.user, !.pending = Parse(c.storage),
                   !.phase = "render"]

\* lines 858-864: the persist effect, with the reminders of the render it
\* belongs to
PersistEffect(c) == Persist(c)

Effects_Mut(c) == LoadEffect(PersistEffect(c))

\* the effects of one render run in the order of their useEffect calls
Effects(c) == PersistEffect(LoadEffect(c))

RunEffects ==
    /\ client.phase = "effects"
    /\ LET ran == Effects([client EXCEPT !.op = "effects", !.lastSent = <<>>])
       IN client' = IF ran.phase = "effects" THEN [ran EXCEPT !.phase = "idle"] ELSE ran
    /\ UNCHANGED <<vars, web>>

\* the render of the reminders the load/reset effect set, and its persist effect
Rerender ==
    /\ client.phase = "render"
    /\ client' = SetReminders(
         [client EXCEPT !.phase = "idle", !.pending = <<>>, !.op = "render",
                        !.lastSent = <<>>],
         client.pending)
    /\ UNCHANGED <<vars, web>>

SessionInit ==
    /\ client \in {NewClient(chat) : chat \in {NoChat, ChatId}}
    /\ env = NotRunning
    /\ clock = 0
    /\ reminders = NotRunning
    /\ inv = NotRunning
    /\ hist = NotRunning
    /\ web = NotRunning

SessionNext ==
    \/ /\ client.phase = "idle"
       /\ \E date \in Dates, title \in Titles, time \in TimeInputs :
            addReminder(date, title, time)
    \/ client.phase = "idle" /\ \E id \in 1..MaxAdds : toggleReminder(id)
    \/ client.phase = "idle" /\ \E id \in 1..MaxAdds : deleteReminder(id)
    \/ client.phase # "render" /\ ClientTick
    \/ \E id \in 1..MaxAdds : SendSettles(id)
    \/ \E id \in 1..MaxAdds : SendFails(id)
    \/ ClientClock
    \/ handleSignOut
    \/ onAuthStateChanged
    \/ RunEffects
    \/ Rerender

SessionSpec == SessionInit /\ [][SessionNext]_allvars

\* ------------------------------------------------ the inbound webhook
\* (src/api/telegram/webhook.js) A text is the tuple of its characters;
\* "ru:z" is the Cyrillic letter ze, and so on.

NumWebhooks == 2
WebInvs == 1..NumWebhooks

OtherChatId == 88
Chats == {ChatId, OtherChatId}

TextCoffee == <<"1", "5", "0", " ", "c", "o", "f", "f", "e", "e">>
TextGift == <<"+", "5", "0", "0", " ", "g", "i", "f", "t">>
TextHello == <<"h", "e", "l", "l", "o">>
TextStart == <<"/", "s", "t", "a", "r", "t">>
TextSalary == <<"ru:z", "ru:a", "ru:r", "ru:p", "ru:l", "ru:a", "ru:t", "ru:a", " ", "1", "0", "0", "0">>
Texts == {TextCoffee, TextGift, TextHello, TextStart, TextSalary}

Digits == {"0", "1", "2", "3", "4", "5", "6", "7", "8", "9"}
Separators == {".", ","}

\* String.prototype.trim
RECURSIVE TrimStart(_)
TrimStart(s) == IF s # <<>> /\ Head(s) = " " THEN TrimStart(Tail(s)) ELSE s

RECURSIVE TrimEnd(_)
TrimEnd(s) ==
    IF s # <<>> /\ s[Len(s)] = " " THEN TrimEnd(SubSeq(s, 1, Len(s) - 1)) ELSE s

TrimText(s) == TrimEnd(TrimStart(s))

StartsWith(s, prefix) ==
    Len(prefix) <= Len(s) /\ SubSeq(s, 1, Len(prefix)) = prefix

\* the first index at which pattern occurs in s, 0 when it does not
IndexOf(s, pattern) ==
    LET at == {k \in 1..(Len(s) - Len(pattern) + 1) :
                 SubSeq(s, k, k + Len(pattern) - 1) = pattern}
    IN IF at = {} THEN 0 ELSE CHOOSE k \in at : \A j \in at : k <= j

Includes(s, pattern) == IndexOf(s, pattern) # 0

\* String.prototype.replace with a string pattern: the first occurrence only
ReplaceFirst(s, pattern, with) ==
    LET k == IndexOf(s, pattern)
    IN IF k = 0 THEN s
       ELSE SubSeq(s, 1, k - 1) \o with \o SubSeq(s, k + Len(pattern), Len(s))

\* String.prototype.toLowerCase, on the letters of Texts
LowerChar(ch) ==
    CASE ch = "I" -> "i"
      [] ch = "ru:D" -> "ru:d"
      [] OTHER -> ch

ToLowerCase(s) == [k \in 1..Len(s) |-> LowerChar(s[k])]

\* the end of the run of digits that starts at k
RECURSIVE DigitsEnd(_, _)
DigitsEnd(s, k) ==
    IF k + 1 <= Len(s) /\ s[k + 1] \in Digits THEN DigitsEnd(s, k + 1) ELSE k

\* line 26: clean.match(/(\d+(?:[.,]\d+)?)/), the leftmost match, <<>> for none
NumMatch(clean) ==
    LET digitAt == {k \in 1..Len(clean) : clean[k] \in Digits}
    IN IF digitAt = {} THEN <<>>
       ELSE LET from == CHOOSE k \in digitAt : \A j \in digitAt : k <= j
                whole == DigitsEnd(clean, from)
                to == IF /\ whole + 2 <= Len(clean)
                         /\ clean[whole + 1] \in Separators
                         /\ clean[whole + 2] \in Digits
                      THEN DigitsEnd(clean, whole + 2)
                      ELSE whole
            IN SubSeq(clean, from, to)

DigitValue(ch) ==
    CASE ch = "0" -> 0 [] ch = "1" -> 1 [] ch = "2" -> 2 [] ch = "3" -> 3
      [] ch = "4" -> 4 [] ch = "5" -> 5 [] ch = "6" -> 6 [] ch = "7" -> 7
      [] ch = "8" -> 8 [] ch = "9" -> 9

RECURSIVE ToNat(_)
ToNat(digits) ==
    IF digits = <<>> THEN 0
    ELSE 10 * ToNat(SubSeq(digits, 1, Len(digits) - 1)) + DigitValue(digits[Len(digits)])

RECURSIVE DropZeros(_)
DropZeros(digits) ==
    IF digits # <<>> /\ digits[Len(digits)] = "0"
    THEN DropZeros(SubSeq(digits, 1, Len(digits) - 1)) ELSE digits

\* parseFloat of digits with an optional '.' and digits: the number
\* mantissa / 10^decimals, without trailing zeros
ParseFloat(str) ==
    LET dot == IndexOf(str, <<".">>)
        whole == IF dot = 0 THEN str ELSE SubSeq(str, 1, dot - 1)
        frac == IF dot = 0 THEN <<>> ELSE DropZeros(SubSeq(str, dot + 1, Len(str)))
    IN [mantissa |-> ToNat(whole \o frac), decimals |-> Len(frac)]

NoDescription == <<"N", "o", " ", "d", "e", "s", "c", "r", "i", "p", "t", "i", "o", "n">>
KeywordRu == <<"ru:d", "ru:o", "ru:h", "ru:o", "ru:d">>
KeywordEn == <<"i", "n", "c", "o", "m", "e">>
NoParse == [parsed |-> FALSE]

\* lines 22-39
parseTransaction(text) ==
    LET clean == TrimText(text)
        numMatch == NumMatch(clean)
        removed == TrimText(ReplaceFirst(clean, numMatch, <<>>))
    IN IF numMatch = <<>> THEN NoParse
       ELSE [parsed |-> TRUE,
             amount |-> ParseFloat(ReplaceFirst(numMatch, <<",">>, <<".">>)),
             description |-> IF removed = <<>> THEN NoDescription ELSE removed,
             type |-> IF \/ StartsWith(clean, <<"+">>)
                         \/ Includes(ToLowerCase(clean), KeywordRu)
                         \/ Includes(ToLowerCase(clean), KeywordEn)
                      THEN "income" ELSE "expense"]

\* the requests: req.method and req.body; message |-> FALSE is a body without
\* message, body |-> FALSE a request without a body
NoBody == [method |-> "POST", body |-> FALSE]
NoMessage == [method |-> "POST", body |-> TRUE, message |-> FALSE]
Message(method, chat, text) ==
    [method |-> method, body |-> TRUE, message |-> TRUE, chat |-> chat, text |-> text]
WebRequests ==
    {NoBody, NoMessage, Message("GET", ChatId, TextCoffee),
     Message("POST", NoChat, TextCoffee), Message("POST", ChatId, <<>>)}
    \cup {Message("POST", chat, text) : chat \in Chats, text \in Texts}

\* a POST whose body carries message.chat.id and message.text
WellFormed(req) ==
    /\ req.method = "POST" /\ req.body /\ req.message
    /\ req.chat # NoChat /\ req.text # <<>>

\* the documents of the collection 'users', which no code of the repository
\* writes: whatever was put there from outside
UserDocs == {[id |-> "uA", chatId |-> ChatId], [id |-> "uB", chatId |-> OtherChatId]}

NoTransaction == 0
IdleCall ==
    [pc |-> "idle", request |-> NoMessage, lookup |-> "none", bound |-> FALSE,
     userId |-> NoUser, replies |-> <<>>, created |-> NoTransaction,
     response |-> NoResponse]

WebhookInit ==
    /\ web \in {[users |-> users, telegramUsers |-> {}, transactions |-> {},
                 nextId |-> 1, calls |-> [i \in WebInvs |-> IdleCall]] :
                users \in SUBSET UserDocs}
    /\ client = NotRunning
    /\ env = NotRunning
    /\ clock = 0
    /\ reminders = NotRunning
    /\ inv = NotRunning
    /\ hist = NotRunning

Call(i) == web.calls[i]

OkResponse == [status |-> 200, ok |-> TRUE]
MethodNotAllowed == [status |-> 405, ok |-> FALSE]
\* the platform's answer when the handler's promise rejects
Unhandled == [status |-> 500, ok |-> FALSE]

CatchResponse_Mut == Unhandled

\* line 103
CatchResponse == OkResponse

Answered(call, response) == [call EXCEPT !.pc = "done", !.response = response]

\* lines 42-56
WebhookStart(i, req) ==
    /\ Call(i).pc = "idle"
    /\ LET call == [Call(i) EXCEPT !.request = req]
       IN web' = [web EXCEPT !.calls[i] =
            IF req.method # "POST" THEN Answered(call, MethodNotAllowed)
            ELSE IF ~req.body THEN Answered(call, Unhandled)
            ELSE IF ~req.message \/ req.text = <<>> \/ req.chat = NoChat
                 THEN Answered(call, OkResponse)
            ELSE [call EXCEPT !.pc = "lookup",
                              !.bound = req.chat \in web.telegramUsers]]
    /\ UNCHANGED <<vars, client>>

\* line 60: db.collection('users').where('chatId', '==', chatId).limit(1)
UserQuery(users, chatId) == {d \in users : d.chatId = chatId}

IsStartCommand_Mut(text) == TRUE

\* line 73: text.startsWith('/start')
IsStartCommand(text) == StartsWith(text, TextStart)

createId_Mut(n) == 1

\* line 13: a new id at every call (the time and a random number): the n-th id
createId(n) == n

Accepted_Mut(docs) == TRUE

\* line 61: !userQuery.empty
Accepted(docs) == docs # {}

\* lines 60-92: the query resolves; the handler runs to its next await
UserLookup(i) ==
    /\ Call(i).pc = "lookup"
    /\ LET call == Call(i)
           docs == UserQuery(web.users, call.request.chat)
           parsed == parseTransaction(call.request.text)
       IN IF ~Accepted(docs)
          THEN web' = [web EXCEPT !.calls[i] =
                         [call EXCEPT !.pc = "onboard", !.lookup = "empty"]]
          ELSE IF docs = {}
          \* userQuery.docs[0].id of no document throws: line 67, caught
          THEN web' = [web EXCEPT !.calls[i] =
                         Answered([call EXCEPT !.lookup = "empty"], CatchResponse)]
          ELSE \E d \in docs :
                 LET found == [call EXCEPT !.lookup = "found", !.userId = d.id]
                 IN IF ~parsed.parsed
                    THEN web' = [web EXCEPT !.calls[i] =
                           IF IsStartCommand(call.request.text)
                           THEN [found EXCEPT !.pc = "help"]
                           ELSE Answered(found, OkResponse)]
                    ELSE web' = [web EXCEPT
                           !.nextId = @ + 1,
                           !.calls[i] = [found EXCEPT !.pc = "set",
                                                      !.created = createId(web.nextId)]]
    /\ UNCHANGED <<vars, client>>

\* line 60 rejects: caught at line 101
UserLookupThrows(i) ==
    /\ Call(i).pc = "lookup"
    /\ web' = [web EXCEPT !.calls[i] =
                 Answered([Call(i) EXCEPT !.lookup = "threw"], CatchResponse)]
    /\ UNCHANGED <<vars, client>>

ReplyKind(pc) ==
    CASE pc = "onboard" -> "onboarding"
      [] pc = "help" -> "help"
      [] pc = "confirm" -> "confirmation"

\* lines 62, 74, 98: sendTelegramMessage resolves, whatever the provider said
ReplySent(i) ==
    /\ Call(i).pc \in {"onboard", "help", "confirm"}
    /\ web' = [web EXCEPT !.calls[i] =
                 Answered([Call(i) EXCEPT !.replies =
                             Append(@, [kind |-> ReplyKind(Call(i).pc), thrown |-> FALSE])],
                          OkResponse)]
    /\ UNCHANGED <<vars, client>>

\* the fetch of sendTelegramMessage rejects: caught at line 101
ReplyThrows(i) ==
    /\ Call(i).pc \in {"onboard", "help", "confirm"}
    /\ web' = [web EXCEPT !.calls[i] =
                 Answered([Call(i) EXCEPT !.replies =
                             Append(@, [kind |-> ReplyKind(Call(i).pc), thrown |-> TRUE])],
                          CatchResponse)]
    /\ UNCHANGED <<vars, client>>

\* lines 82-92
Transaction(call) ==
    LET parsed == parseTransaction(call.request.text)
    IN [id |-> call.created, userId |-> call.userId, type |-> parsed.type,
        amount |-> parsed.amount, categoryId |-> "cat-default",
        description |-> parsed.description, source |-> "telegram-bot"]

\* line 94
TransactionSet(i) ==
    /\ Call(i).pc = "set"
    /\ web' = [web EXCEPT
         !.transactions = {t \in @ : t.id # Call(i).created} \cup {Transaction(Call(i))},
         !.calls[i] = [Call(i) EXCEPT !.pc = "confirm"]]
    /\ UNCHANGED <<vars, client>>

\* line 94 rejects: caught at line 101
TransactionSetThrows(i) ==
    /\ Call(i).pc = "set"
    /\ web' = [web EXCEPT !.calls[i] =
                 Answered([Call(i) EXCEPT !.created = NoTransaction], CatchResponse)]
    /\ UNCHANGED <<vars, client>>

\* App.tsx lines 893-912: the client of a signed-in user opened in this chat
\* writes telegramUsers/tg_<chat>
SyncTelegramUser(chat) ==
    /\ chat \notin web.telegramUsers
    /\ web' = [web EXCEPT !.telegramUsers = @ \cup {chat}]
    /\ UNCHANGED <<vars, client>>

WebhookNext ==
    \/ \E i \in WebInvs, req \in WebRequests : WebhookStart(i, req)
    \/ \E i \in WebInvs : UserLookup(i)
    \/ \E i \in WebInvs : UserLookupThrows(i)
    \/ \E i \in WebInvs : ReplySent(i)
    \/ \E i \in WebInvs : ReplyThrows(i)
    \/ \E i \in WebInvs : TransactionSet(i)
    \/ \E i \in WebInvs : TransactionSetThrows(i)
    \/ \E chat \in Chats : SyncTelegramUser(chat)

WebhookSpec == WebhookInit /\ [][WebhookNext]_allvars

\* ------------------------------------------------------------ the broadcast
\* (src/functions/src/index.ts lines 17-58, the callable broadcastUpdate, and
\* src/scripts/broadcast.js lines 21-59, the script) inv is the one run, web
\* the store: the collections telegramUsers and broadcasts.

\* the documents of telegramUsers, in the order of a snapshot; the last one
\* has no chatId
TelegramUserDocs ==
    << [id |-> "tg_77", chatId |-> ChatId], [id |-> "tg_88", chatId |-> OtherChatId],
       [id |-> "tg_x", chatId |-> NoChat] >>

\* the runs: which program, whether the caller is an admin, the message, and
\* whether the token is configured
BroadcastRuns ==
    {[program |-> "function", admin |-> a, message |-> m, token |-> t] :
        a \in BOOLEAN, m \in {"", " ", "update"}, t \in BOOLEAN}
    \cup {[program |-> "script", admin |-> TRUE, message |-> "update", token |-> TRUE]}

\* the responses to one sendMessage
BroadcastResponses ==
    { [status |-> 200, body |-> "object", payloadOk |-> "true", description |-> Undefined],
      [status |-> 200, body |-> "object", payloadOk |-> Undefined, description |-> Undefined],
      [status |-> 403, body |-> "object", payloadOk |-> "false", description |-> "Forbidden"],
      [status |-> 502, body |-> "unparseable", payloadOk |-> Undefined, description |-> Undefined] }

BroadcastInit ==
    /\ inv \in {[run |-> run, pc |-> "start", chatIds |-> <<>>, idx |-> 1, sent |-> 0,
                 failed |-> 0, attempts |-> <<>>] : run \in BroadcastRuns}
    /\ web \in {[telegramUsers |-> docs, broadcasts |-> <<>>] :
                  docs \in SUBSET {TelegramUserDocs[k] : k \in 1..Len(TelegramUserDocs)}}
    /\ env = NotRunning
    /\ clock = 0
    /\ reminders = NotRunning
    /\ hist = NotRunning
    /\ client = NotRunning

\* index.ts lines 18-27: the checks of the callable; the script has made its
\* own before run (broadcast.js lines 8-13)
BroadcastStart ==
    /\ inv.pc = "start"
    /\ inv' = [inv EXCEPT !.pc =
         IF inv.run.program = "function"
            /\ (~inv.run.admin \/ Trim(inv.run.message) = "" \/ ~inv.run.token)
         THEN "thrown" ELSE "get"]
    /\ UNCHANGED <<env, clock, reminders, hist, client, web>>

\* snapshot.docs.map(doc => doc.data().chatId).filter(Boolean)
RECURSIVE ChatIdsOf(_, _)
ChatIdsOf(docs, stored) ==
    IF docs = <<>> THEN <<>>
    ELSE (IF Head(docs) \in stored /\ Head(docs).chatId # NoChat
          THEN <<Head(docs).chatId>> ELSE <<>>) \o ChatIdsOf(Tail(docs), stored)

\* index.ts lines 28-31, broadcast.js lines 22-25
GetTelegramUsers ==
    /\ inv.pc = "get"
    /\ LET chatIds == ChatIdsOf(TelegramUserDocs, web.telegramUsers)
       IN inv' = [inv EXCEPT !.chatIds = chatIds,
                             !.pc = IF chatIds = <<>> THEN "record" ELSE "send"]
    /\ UNCHANGED <<env, clock, reminders, hist, client, web>>

\* the get rejects: the run ends with the error
GetTelegramUsersThrows ==
    /\ inv.pc = "get"
    /\ inv' = [inv EXCEPT !.pc = "thrown"]
    /\ UNCHANGED <<env, clock, reminders, hist, client, web>>

\* index.ts line 42, broadcast.js line 42: response.ok && payload.ok
Delivered(resp) == ResponseOk(resp) /\ resp.payloadOk = "true"

AfterSend(b) ==
    [b EXCEPT !.idx = @ + 1,
              !.attempts = Append(@, b.chatIds[b.idx]),
              !.pc = IF b.idx = Len(b.chatIds) THEN "record" ELSE "send"]

\* index.ts lines 35-47, broadcast.js lines 32-55: one pass of the loop; a
\* body that is not JSON makes response.json() reject inside the try
BroadcastSend ==
    /\ inv.pc = "send"
    /\ \E resp \in BroadcastResponses :
         inv' = IF resp.body = "object" /\ Delivered(resp)
                THEN [AfterSend(inv) EXCEPT !.sent = @ + 1]
                ELSE [AfterSend(inv) EXCEPT !.failed = @ + 1]
    /\ UNCHANGED <<env, clock, reminders, hist, client, web>>

\* fetch rejects: caught at index.ts line 45, broadcast.js line 52
BroadcastSendThrows ==
    /\ inv.pc = "send"
    /\ inv' = [AfterSend(inv) EXCEPT !.failed = @ + 1]
    /\ UNCHANGED <<env, clock, reminders, hist, client, web>>

\* index.ts lines 50-57: the audit entry of the callable; broadcast.js line
\* 58: the script logs the counts to the console and ends
BroadcastRecord ==
    /\ inv.pc = "record"
    /\ inv' = [inv EXCEPT !.pc = "done"]
    /\ web' = IF inv.run.program = "function"
              THEN [web EXCEPT !.broadcasts =
                      Append(@, [message |-> Trim(inv.run.message), sentCount |-> inv.sent,
                                 totalCount |-> Len(inv.chatIds)])]
              ELSE web
    /\ UNCHANGED <<env, clock, reminders, hist, client>>

\* index.ts line 50: the add rejects
BroadcastRecordThrows ==
    /\ inv.pc = "record"
    /\ inv.run.program = "function"
    /\ inv' = [inv EXCEPT !.pc = "thrown"]
    /\ UNCHANGED <<env, clock, reminders, hist, client, web>>

BroadcastNext ==
    \/ BroadcastStart
    \/ GetTelegramUsers
    \/ GetTelegramUsersThrows
    \/ BroadcastSend
    \/ BroadcastSendThrows
    \/ BroadcastRecord
    \/ BroadcastRecordThrows

BroadcastSpec == BroadcastInit /\ [][BroadcastNext]_allvars

\* ------------------------------------------------------------- properties
Range(s) == {s[k] : k \in 1..Len(s)}

\* invocation i has claimed r and not yet written the outcome of its send
Holding(i, r) == inv[i].pc \in {"send", "update"} /\ Current(i) = r

Responded(i) == inv[i].pc = "done"

\* C1 (as stated): of two invocations whose due-query results both contain
\* reminder r, exactly one observes status = pending in its claim transaction
\* and claims r; the other skips it. Stated of two invocations that both went
\* through their whole batch and answered 200.
C1_ExactlyOneClaims ==
    \A r \in Rids : \A i, j \in Invs :
        (/\ i # j
         /\ Responded(i) /\ inv[i].response.status = 200
         /\ Responded(j) /\ inv[j].response.status = 200
         /\ r \in Range(inv[i].docs) /\ r \in Range(inv[j].docs)
         /\ reminders[r].exists)
        => ((r \in hist.claimed[i]) # (r \in hist.claimed[j]))

\* C1 (amended): at any moment at most one invocation holds the claim on a
\* reminder (is between its claim transaction and its post-send update), it
\* holds it only through its own claim transaction, the reminder is then in
\* status sending, and two invocations have both claimed
\* the same reminder only if a failed send returned it to pending with
\* lastError in between.
C1_AtMostOneClaimant ==
    \A r \in Rids :
        /\ Cardinality({i \in Invs : Holding(i, r)}) <= 1
        /\ \A i \in Invs : Holding(i, r) => r \in hist.claimed[i]
        /\ reminders[r].exists =>
             /\ (\E i \in Invs : Holding(i, r)) => reminders[r].status = "sending"
             /\ (\E i, j \in Invs : i # j /\ r \in hist.claimed[i] /\ r \in hist.claimed[j])
                  => reminders[r].lastError # Undefined

\* one invocation holds r while the other, whose snapshot also had r, has
\* gone through its batch without claiming it
C1_Witness ==
    \E r \in Rids : \E i, j \in Invs :
        /\ i # j
        /\ Holding(i, r)
        /\ r \in Range(inv[j].docs) /\ r \notin hist.claimed[j]
        /\ Responded(j) /\ inv[j].response.status = 200

\* C2: under any interleaving of overlapping invocations, at most one send
\* call for a given reminder returns success, and no send is issued for a
\* reminder whose status is already sent.
C2_AtMostOneDelivery ==
    /\ \A r \in Rids : hist.delivered[r] <= 1
    /\ hist.sentWhileSent = {}

\* a reminder both invocations claimed, one after the other, delivered once
C2_Witness ==
    \E r \in Rids :
        /\ hist.delivered[r] = 1
        /\ \A i \in Invs : r \in hist.claimed[i]

\* C3 (as stated): when every invocation that was started has returned a
\* response, no reminder is in status sending.
C3_NoSendingWhenAllResponded ==
    (\A i \in Invs : inv[i].pc \in {"idle", "done"})
        => \A r \in Rids : reminders[r].exists => reminders[r].status # "sending"

\* C4 (as stated): the update that follows a provider-reported failure leaves
\* the reminder pending with a non-empty lastError.
C4_FailureRecordsError ==
    [][\A i \in Invs :
         (/\ inv[i].pc = "update"
          /\ ~inv[i].sendResult.ok
          /\ inv'[i].results # inv[i].results)
         => /\ reminders'[Current(i)].status = "pending"
            /\ reminders'[Current(i)].lastError \notin {Undefined, ""}]_vars

\* C5 (as stated): a send that throws leaves the reminder pending, so that a
\* later invocation can claim it again.
C5_ThrownSendLeavesPending ==
    [][\A i \in Invs :
         (/\ inv[i].pc = "send"
          /\ inv'[i].pc = "done"
          /\ reminders'[Current(i)].exists)
         => reminders'[Current(i)].status = "pending"]_vars

\* C6: once a reminder's status is sent, no step changes it to pending or
\* sending.
C6_SentIsFinal ==
    [][\A r \in Rids :
         (reminders[r].exists /\ reminders[r].status = "sent" /\ reminders'[r].exists)
         => reminders'[r].status = "sent"]_vars

\* a sent reminder that an invocation still running its unconditional update
\* (of another reminder) had claimed earlier
C6_Witness ==
    \E r \in Rids : \E i \in Invs :
        /\ reminders[r].exists /\ reminders[r].status = "sent"
        /\ r \in hist.claimed[i]
        /\ inv[i].pc = "update"

\* the request carries the configured secret, as the bearer token or as the
\* secret query parameter
CarriesSecret(req) ==
    \/ req.authorization = [scheme |-> "Bearer ", rest |-> env.cronSecret]
    \/ req.secret = [type |-> "string", value |-> env.cronSecret]

\* C7: an invocation goes on to the query only if no secret is configured or
\* the request carries it; a GET/POST that does not is answered 401, and a 401
\* invocation has queried, claimed and recorded nothing.
C7_SecretGuardsQuery ==
    \A i \in Invs :
        /\ inv[i].pc = "query" => (env.cronSecret = "" \/ CarriesSecret(inv[i].req))
        /\ (/\ Responded(i)
            /\ inv[i].req.method \in {"GET", "POST"}
            /\ env.cronSecret # ""
            /\ ~CarriesSecret(inv[i].req))
           => inv[i].response.status = 401
        /\ inv[i].response.status = 401
           => /\ env.cronSecret # "" /\ ~CarriesSecret(inv[i].req)
              /\ inv[i].now = NoTime /\ inv[i].docs = <<>> /\ inv[i].results = <<>>
              /\ hist.claimed[i] = {}

\* a 401 while a reminder is pending and due, and nothing of it has changed
C7_Witness ==
    \E i \in Invs : \E r \in Rids :
        /\ inv[i].response.status = 401
        /\ IsDue(r, clock)
        /\ reminders[r].updatedAt = NoTime

\* C8 (as stated): while candidates of the batch remain, a failure in
\* processing one reminder does not end the invocation: it goes on to the next
\* candidate.
C8_FailureDoesNotStopBatch ==
    [][\A i \in Invs :
         (inv[i].pc \in {"send", "update"} /\ inv[i].idx < Len(inv[i].docs))
         => \/ inv'[i].pc \in {"send", "update"} /\ inv'[i].idx = inv[i].idx
            \/ inv'[i].pc = "claim" /\ inv'[i].idx = inv[i].idx + 1]_vars

\* C9: every reminder for which an invocation recorded a successful send is in
\* status sent with notifiedAt set (while the document exists).
C9_SuccessMarksSent ==
    \A i \in Invs : \A k \in 1..Len(inv[i].results) :
        LET e == inv[i].results[k]
        IN (e.ok /\ reminders[e.id].exists)
           => /\ reminders[e.id].status = "sent"
              /\ reminders[e.id].notifiedAt # NoTime

\* a reminder one invocation returned to pending with lastError and another
\* invocation then claimed, sent and marked sent
C9_Witness ==
    \E r \in Rids : \E i, j \in Invs :
        /\ i # j
        /\ reminders[r].exists /\ reminders[r].status = "sent"
        /\ reminders[r].lastError # Undefined
        /\ r \in hist.claimed[j]
        /\ \E k \in 1..Len(inv[i].results) : inv[i].results[k] = [id |-> r, ok |-> TRUE, status |-> 200]

\* C10: the candidates of an invocation are at most QueryLimit reminders, due
\* at the invocation's now, in ascending scheduledAt order; it claims only
\* candidates, in that order; and a reminder whose scheduledAt is in the future
\* is never claimed or sent.
C10_OnlyDueOldestFirst ==
    /\ \A i \in Invs :
        /\ Len(inv[i].docs) <= QueryLimit
        /\ \A k \in 1..Len(inv[i].docs) :
             reminders[inv[i].docs[k]].exists
                => reminders[inv[i].docs[k]].scheduledAt <= inv[i].now
        /\ \A k, l \in 1..Len(inv[i].docs) :
             (k < l /\ reminders[inv[i].docs[k]].exists /\ reminders[inv[i].docs[l]].exists)
                => reminders[inv[i].docs[k]].scheduledAt <= reminders[inv[i].docs[l]].scheduledAt
        /\ hist.claimed[i] \subseteq {inv[i].docs[k] : k \in 1..Len(inv[i].docs)}
        /\ inv[i].pc \in {"claim", "send", "update"}
             => hist.claimed[i] \subseteq {inv[i].docs[k] : k \in 1..inv[i].idx}
    /\ \A r \in Rids :
        (reminders[r].exists /\ reminders[r].scheduledAt > clock)
           => /\ reminders[r].status = "pending"
              /\ hist.delivered[r] = 0
              /\ \A i \in Invs : r \notin hist.claimed[i]

\* a full batch, not in document-id order, that leaves a due reminder out, and
\* of which the invocation has claimed one
C10_Witness ==
    \E i \in Invs : \E r \in Rids :
        /\ Len(inv[i].docs) = QueryLimit
        /\ inv[i].docs[1] > inv[i].docs[2]
        /\ r \notin Range(inv[i].docs) /\ IsDue(r, inv[i].now)
        /\ hist.claimed[i] # {}

\* C11: an invocation enters its send only from its own claim transaction,
\* which found the reminder pending and set it to sending; at a candidate that
\* is missing or not pending, its step sends nothing and writes nothing, and
\* goes on to the next candidate or to the response.
C11_SendOnlyAfterOwnClaim ==
    [][\A i \in Invs :
         /\ (inv[i].pc # "send" /\ inv'[i].pc = "send")
            => /\ inv[i].pc = "claim"
               /\ reminders[Current(i)].exists
               /\ reminders[Current(i)].status = "pending"
               /\ reminders'[Current(i)].status = "sending"
               /\ Current(i) \in hist'.claimed[i]
         /\ (/\ inv[i].pc = "claim"
             /\ inv'[i] # inv[i]
             /\ ~(reminders[Current(i)].exists /\ reminders[Current(i)].status = "pending"))
            => /\ reminders' = reminders
               /\ hist' = hist
               /\ inv'[i].results = inv[i].results
               /\ inv'[i].pc \in {"claim", "done"}]_vars

\* an invocation that answered 200 and whose batch had a candidate that was
\* deleted before its claim transaction, which it did not claim
C11_Witness ==
    \E i \in Invs : \E r \in Rids :
        /\ Responded(i) /\ inv[i].response.status = 200
        /\ r \in Range(inv[i].docs)
        /\ ~reminders[r].exists
        /\ r \notin hist.claimed[i]

\* C12: in a 200 response, processed is the number of reminders the
\* invocation itself claimed, with one result entry for each of them and for
\* no other; and an invocation that finds no reminder pending and due answers
\* 200 with processed 0 in a step that leaves the store unchanged.
C12_ProcessedCountsOwnClaims ==
    [][\A i \in Invs :
         /\ (inv'[i].pc = "done" /\ inv'[i].response.status = 200)
            => /\ inv'[i].response.processed = Cardinality(hist'.claimed[i])
               /\ Len(inv'[i].results) = Cardinality(hist'.claimed[i])
               /\ {inv'[i].results[k].id : k \in 1..Len(inv'[i].results)} = hist'.claimed[i]
         /\ (/\ inv[i].pc = "query"
             /\ inv'[i] # inv[i]
             /\ ~(\E r \in Rids : IsDue(r, inv[i].now)))
            => \/ inv'[i].response.status = 500
               \/ /\ inv'[i].pc = "done"
                  /\ inv'[i].response = [status |-> 200, processed |-> 0]
                  /\ inv'[i].results = <<>>
                  /\ reminders' = reminders]_vars

\* a 200 response with fewer reminders processed than the snapshot had
\* candidates: one was lost to the other invocation, one had a failed send
C12_Witness ==
    \E i \in Invs :
        /\ Responded(i) /\ inv[i].response.status = 200
        /\ inv[i].response.processed = 1
        /\ Len(inv[i].docs) = 2
        /\ \E j \in Invs : j # i /\ hist.claimed[j] \cap Range(inv[i].docs) # {}
        /\ \E k \in 1..Len(inv[i].results) : ~inv[i].results[k].ok

\* ------------------------------------------------- properties of the client

\* the reminder of the client with this id (ids are fresh: at most one)
ClientReminder(c, id) ==
    c.reminders[CHOOSE k \in 1..Len(c.reminders) : c.reminders[k].id = id]

IdsOf(c) == {c.reminders[k].id : k \in 1..Len(c.reminders)}

\* how many times id occurs among the sends a step fired
Attempts(c, id) == Cardinality({k \in 1..Len(c.lastSent) : c.lastSent[k] = id})

\* C13: toggleReminder of a reminder that is not done makes it done and leaves
\* its notified flag as it was; of a reminder that is done, makes it not done
\* and sets notified to false; its other fields, and every other reminder, are
\* unchanged.
C13_ToggleRearms ==
    [][\A id \in 1..MaxAdds : toggleReminder(id) =>
         /\ Len(client'.reminders) = Len(client.reminders)
         /\ \A k \in 1..Len(client.reminders) :
              LET old == client.reminders[k]
                  new == client'.reminders[k]
              IN IF old.id # id THEN new = old
                 ELSE /\ new.done = ~old.done
                      /\ ~old.done => new.notified = old.notified
                      /\ old.done => new.notified = FALSE
                      /\ new.id = old.id /\ new.title = old.title
                      /\ new.date = old.date /\ new.time = old.time]_allvars

\* a reminder marked done after its notification: toggling kept notified
C13_Witness ==
    /\ client.op = "toggle"
    /\ \E k \in 1..Len(client.reminders) :
         client.reminders[k].done /\ client.reminders[k].notified
    /\ \E k \in 1..Len(client.reminders) :
         ~client.reminders[k].done /\ ~client.reminders[k].notified

\* C14: a tick fires exactly one send for each reminder that is not done, not
\* notified and scheduled at or before now, and sets its notified flag; a send
\* is fired only for a reminder whose notified flag was false, and the flag
\* returns to false only by toggling a done reminder back to not done.
C14_OneSendPerArming ==
    [][/\ ClientTick =>
            \A k \in 1..Len(client.reminders) :
               LET old == client.reminders[k]
               IN (~old.done /\ ~old.notified /\ Scheduled(old) <= client.now) =>
                     /\ Attempts(client', old.id) = 1
                     /\ old.id \in client'.inflight
                     /\ client'.reminders[k].notified
                     /\ client'.reminders[k].id = old.id
       /\ \A id \in IdsOf(client) :
            /\ Attempts(client', id) <= 1
            /\ Attempts(client', id) = 1 => ~ClientReminder(client, id).notified
            /\ (id \in IdsOf(client') /\ ClientReminder(client, id).notified
                  /\ ~ClientReminder(client', id).notified) =>
                 (ClientReminder(client, id).done /\ ~ClientReminder(client', id).done)
       /\ \A k \in 1..Len(client'.lastSent) : client'.lastSent[k] \in IdsOf(client)
      ]_allvars

\* a tick has just sent for one reminder and stayed silent on one it had
\* notified before
C14_Witness ==
    /\ client.op = "tick"
    /\ Len(client.lastSent) = 1
    /\ \E k \in 1..Len(client.reminders) :
         /\ client.reminders[k].id \notin Range(client.lastSent)
         /\ client.reminders[k].notified
         /\ ~client.reminders[k].done
         /\ client.reminders[k].id \notin client.inflight

\* C15: no step sets the notified flag of a reminder that is done, and no
\* step fires a send for a reminder that is done.
C15_NoSendForDone ==
    [][\A id \in IdsOf(client) :
         /\ (id \in IdsOf(client') /\ ~ClientReminder(client, id).notified
               /\ ClientReminder(client', id).notified) =>
              (~ClientReminder(client, id).done /\ ~ClientReminder(client', id).done)
         /\ Attempts(client', id) > 0 => ~ClientReminder(client, id).done]_allvars

\* a tick has sent for one reminder and passed over a due one that is done
C15_Witness ==
    /\ client.op = "tick"
    /\ client.lastSent # <<>>
    /\ \E k \in 1..Len(client.reminders) :
         /\ client.reminders[k].done
         /\ ~client.reminders[k].notified
         /\ Scheduled(client.reminders[k]) <= client.now

\* C16: a reminder whose send was rejected, the error caught, has
\* notified=false (and so is sent again by the next tick).
C16_FailedSendStaysArmed ==
    \A k \in 1..Len(client.reminders) :
       (client.op = "failed" /\ client.reminders[k].id \in client.failed) =>
          ~client.reminders[k].notified

\* C17: a tick that finds no reminder that is not done, not notified and due
\* fires no send and keeps the reminders: the same array, nothing persisted.
C17_IdleTickChangesNothing ==
    [][(/\ ClientTick
        /\ \A k \in 1..Len(client.reminders) :
              LET old == client.reminders[k]
              IN old.done \/ old.notified \/ Scheduled(old) > client.now) =>
         /\ client'.lastSent = <<>>
         /\ client'.inflight = client.inflight
         /\ client'.reminders = client.reminders
         /\ client'.storage = client.storage
         /\ ~client'.lastWrote]_allvars

\* an idle tick over a done reminder that is due, a notified one, and one
\* that is not due yet
C17_Witness ==
    /\ client.op = "tick"
    /\ client.lastSent = <<>>
    /\ ~client.lastWrote
    /\ \E j, k \in 1..Len(client.reminders) :
         /\ client.reminders[j].done /\ ~client.reminders[j].notified
         /\ Scheduled(client.reminders[j]) <= client.now
         /\ ~client.reminders[k].done /\ ~client.reminders[k].notified
         /\ Scheduled(client.reminders[k]) > client.now

\* ------------------------------------------------ properties of the webhook

\* C18: every POST whose body carries message.chat.id and message.text is
\* answered 200 {ok: true}, whether the user lookup, the write of the
\* transaction or the reply threw or not.
C18_AlwaysOk ==
    \A i \in WebInvs :
       (Call(i).pc = "done" /\ WellFormed(Call(i).request)) =>
          Call(i).response = OkResponse

\* one call whose write of the transaction threw, another whose reply threw
C18_Witness ==
    \E i, j \in WebInvs :
       /\ Call(i).pc = "done" /\ WellFormed(Call(i).request)
       /\ Call(i).lookup = "found" /\ parseTransaction(Call(i).request.text).parsed
       /\ Call(i).replies = <<>>
       /\ Call(j).pc = "done" /\ WellFormed(Call(j).request)
       /\ Call(j).replies # <<>> /\ Call(j).replies[1].thrown

\* C19: a message that arrives from a chat after the client wrote the binding
\* of that chat is accepted: its sender is found, it is not sent to onboarding.
C19_BoundChatIsAccepted ==
    \A i \in WebInvs :
       (Call(i).pc = "done" /\ WellFormed(Call(i).request) /\ Call(i).bound) =>
          Call(i).lookup # "empty"

\* C20: a call whose lookup finds no user for the chat attempts one onboarding
\* reply and nothing else: it creates no transaction and changes none,
\* whatever the text.
C20_UnknownChatOnlyOnboards ==
    [][\A i \in WebInvs :
         web'.calls[i].lookup = "empty" =>
            /\ web'.calls[i].pc \in {"onboard", "done"}
            /\ web'.calls[i].created = NoTransaction
            /\ web'.calls[i] # web.calls[i] => web'.transactions = web.transactions
            /\ web'.calls[i].pc = "onboard" => web'.calls[i].replies = <<>>
            /\ web'.calls[i].pc = "done" =>
                 /\ Len(web'.calls[i].replies) = 1
                 /\ web'.calls[i].replies[1].kind = "onboarding"]_allvars

\* an unknown chat sent a text that parses as a transaction, while another
\* call created one
C20_Witness ==
    \E i \in WebInvs :
       /\ Call(i).pc = "done" /\ Call(i).lookup = "empty"
       /\ parseTransaction(Call(i).request.text).parsed
       /\ Len(Call(i).replies) = 1
       /\ web.transactions # {}

\* the calls that found their user and parsed a transaction out of the text
Parsed(i) ==
    /\ Call(i).lookup = "found"
    /\ Call(i).pc \in {"set", "confirm", "done"}
    /\ parseTransaction(Call(i).request.text).parsed

TextSalaryWord == <<"ru:z", "ru:a", "ru:r", "ru:p", "ru:l", "ru:a", "ru:t", "ru:a">>
TextGiftWord == <<"g", "i", "f", "t">>

\* C21 (as stated): a parsed text is income when it starts with '+' or
\* contains an income keyword and expense otherwise; 'zarplata 1000' (in
\* Cyrillic) is income with amount 1000 and description 'zarplata', and
\* '150 coffee' is expense.
C21_SalaryIsIncome ==
    \A i \in WebInvs :
       Parsed(i) =>
          LET text == Call(i).request.text
              parsed == parseTransaction(text)
          IN /\ StartsWith(TrimText(text), <<"+">>) => parsed.type = "income"
             /\ text = TextCoffee => parsed.type = "expense"
             /\ text = TextSalary =>
                  /\ parsed.type = "income"
                  /\ parsed.amount = [mantissa |-> 1000, decimals |-> 0]
                  /\ parsed.description = TextSalaryWord

\* C22 (as stated): the amount is the first numeric token and the description
\* the text without it, trimmed; '+500 gift' gives amount 500 and description
\* 'gift'.
C22_GiftDescription ==
    \A i \in WebInvs :
       (Parsed(i) /\ Call(i).request.text = TextGift) =>
          LET parsed == parseTransaction(TextGift)
          IN /\ parsed.amount = [mantissa |-> 500, decimals |-> 0]
             /\ parsed.description = TextGiftWord

DigitFree(text) == \A k \in 1..Len(text) : text[k] \notin Digits

\* C23: a call of a known user whose text holds no digit parses nothing,
\* creates and changes no transaction, and replies only to a start command,
\* with the help text; any other such text is answered without a reply.
C23_NoDigitNoTransaction ==
    [][\A i \in WebInvs :
         (/\ web'.calls[i].lookup = "found"
          /\ DigitFree(web'.calls[i].request.text)) =>
            LET call == web'.calls[i]
            IN /\ ~parseTransaction(call.request.text).parsed
               /\ call.pc \in {"help", "done"}
               /\ call.created = NoTransaction
               /\ call # web.calls[i] => web'.transactions = web.transactions
               /\ call.pc = "help" =>
                    /\ StartsWith(call.request.text, TextStart)
                    /\ call.replies = <<>>
               /\ call.pc = "done" =>
                    IF StartsWith(call.request.text, TextStart)
                    THEN Len(call.replies) = 1 /\ call.replies[1].kind = "help"
                    ELSE call.replies = <<>> /\ call.response = OkResponse]_allvars

\* a known user said hello and got no reply; another got the help reply
C23_Witness ==
    \E i, j \in WebInvs :
       /\ Call(i).pc = "done" /\ Call(i).lookup = "found"
       /\ Call(i).request.text = TextHello /\ Call(i).replies = <<>>
       /\ Call(j).pc = "done" /\ Call(j).lookup = "found"
       /\ Call(j).request.text = TextStart /\ Len(Call(j).replies) = 1

\* C24: every step keeps every transaction there is; the write of a call adds
\* exactly one record, under a new id, with the call's user, the parsed type,
\* amount and description, the default category and the bot's source marker.
C24_OnlyAppends ==
    [][/\ web.transactions \subseteq web'.transactions
       /\ \A i \in WebInvs :
            (web.calls[i].pc = "set" /\ web'.calls[i].pc = "confirm") =>
               LET parsed == parseTransaction(web.calls[i].request.text)
                   new == web'.transactions \ web.transactions
               IN /\ Cardinality(new) = 1
                  /\ \A t \in new :
                       /\ \A old \in web.transactions : old.id # t.id
                       /\ t.id = web.calls[i].created
                       /\ t.userId = web.calls[i].userId
                       /\ t.type = parsed.type
                       /\ t.amount = parsed.amount
                       /\ t.description = parsed.description
                       /\ t.categoryId = "cat-default"
                       /\ t.source = "telegram-bot"
       /\ (\A i \in WebInvs : ~(web.calls[i].pc = "set" /\ web'.calls[i].pc = "confirm"))
            => web'.transactions = web.transactions]_allvars

\* the same message delivered twice, both calls answered: two records that
\* differ in their id only
C24_Witness ==
    \E i, j \in WebInvs :
       /\ i # j
       /\ Call(i).pc = "done" /\ Call(j).pc = "done"
       /\ Call(i).request = Call(j).request
       /\ Cardinality(web.transactions) = 2
       /\ \E t, u \in web.transactions :
            /\ t.id = Call(i).created /\ u.id = Call(j).created /\ t.id # u.id
            /\ [t EXCEPT !.id = u.id] = u

\* ------------------------------------------------- properties of the sender

C26_NoSendAfterSignOut ==
    [][/\ (client'.user = NoUser /\ client'.phase = "idle") => client'.reminders = <<>>
       /\ (ClientTick /\ client.user = NoUser) => client'.lastSent = <<>>]_allvars

\* C30: from the sign-out to the next sign-in nothing is written to the
\* user's storage entry; the reminders loaded after the sign-in are those of
\* the entry as the sign-out left it, and once they are rendered the entry
\* holds them again.
C30_RemindersSurviveSignOut ==
    /\ client.user = NoUser => client.storage = client.saved
    /\ (client.user # NoUser /\ client.op = "signin") => client.storage = client.saved
    /\ (client.user # NoUser /\ client.op = "effects") =>
          client.pending = Parse(client.saved)
    /\ (client.user # NoUser /\ client.op = "render") =>
          /\ client.reminders = Parse(client.saved)
          /\ client.storage = client.saved

\* a user is back, with a reminder that was already notified when they left
C30_Witness ==
    /\ client.user # NoUser
    /\ client.op = "render"
    /\ \E k \in 1..Len(client.reminders) : client.reminders[k].notified
    /\ \E k \in 1..Len(client.reminders) : ~client.reminders[k].done

\* ---------------------------------------------- properties of the broadcast

\* C27 (as stated): a broadcast that ran to its end has attempted one send
\* to every chat id of telegramUsers, whatever the sends did, and has recorded
\* exactly one audit entry, with totalCount the number of chat ids and
\* sentCount the number of sends that succeeded.
C27_OneAuditEntry ==
    inv.pc = "done" =>
       /\ inv.attempts = inv.chatIds
       /\ inv.sent + inv.failed = Len(inv.chatIds)
       /\ Len(web.broadcasts) = 1
       /\ web.broadcasts[1].totalCount = Len(inv.chatIds)
       /\ web.broadcasts[1].sentCount = inv.sent
       /\ 0 <= inv.sent /\ inv.sent <= Len(inv.chatIds)

\* --------------------------------------- properties of the cron job, run after run

\* reminder r is in status sending and no run is between its claim of r and
\* its update of r: the run that claimed it was ended
Stuck(r) ==
    /\ reminders[r].exists
    /\ reminders[r].status = "sending"
    /\ \A i \in Invs : ~(inv[i].pc \in {"send", "update"} /\ Current(i) = r)

\* C28: a reminder left in status sending by a run that was ended after its
\* claim stays as it is: no later query selects it, no run claims it or sends
\* for it, and no step changes it.
C28_StuckInSending ==
    [][\A r \in Rids :
         Stuck(r) =>
            /\ reminders'[r] = reminders[r]
            /\ hist'.delivered[r] = hist.delivered[r]
            /\ \A i \in Invs :
                 /\ r \in hist'.claimed[i] => r \in hist.claimed[i]
                 /\ (inv[i].pc = "query" /\ inv'[i].pc = "claim") =>
                       r \notin Range(inv'[i].docs)
                 /\ inv'[i].pc \in {"send", "update"} => Current(i)' # r]_allvars

\* a run was ended between its claim and its update; a later run has answered
\* 200 after sending for a reminder that is not scheduled before the stuck one
C28_Witness ==
    \E r, q \in Rids :
       /\ r # q
       /\ Stuck(r)
       /\ reminders[r].scheduledAt <= reminders[q].scheduledAt
       /\ reminders[q].exists /\ reminders[q].status = "sent"
       /\ reminders[q].notifiedAt > reminders[r].updatedAt
       /\ \A i \in Runs : inv[i].pc = "done" /\ inv[i].response.status = 200

\* C29 (as stated): with runs that keep coming, every reminder that is pending
\* and due is eventually claimed.
C29_DueIsEventuallyClaimed ==
    \A r \in Rids :
       (reminders[r].exists /\ reminders[r].status = "pending"
          /\ reminders[r].scheduledAt <= clock)
       ~> (reminders[r].status # "pending")

====
